---- MODULE Spec2Model ----
(***************************************************************************)
(* End-of-turn detection of the AI interview application.                  *)
(*                                                                         *)
(* The VAD-fused detector: hooks/useEnhancedSpeechRecognition.ts on top of *)
(* hooks/useStreamingVAD.ts.  The hook's refs and React state are the      *)
(* variables; every callback of the hook (the public functions, the MicVAD *)
(* callbacks, the SpeechRecognition handlers, the timer callbacks and the  *)
(* effect) is one action.  The browser runs the callbacks one at a time,   *)
(* in any order the event loop may produce.                                *)
(*                                                                         *)
(* Time is counted in ticks of 1000 ms and kept as differences: a pending  *)
(* timer is the time left until it expires, and speechStartTimeRef is kept *)
(* as Date.now() - speechStartTimeRef.current, which the code only ever    *)
(* compares with minSpeechDuration.                                        *)
(*                                                                         *)
(* isSpeaking, vadProbability and error of useStreamingVAD are written by  *)
(* the callbacks and read by none of them; they are not part of the state. *)
(*                                                                         *)
(* Spec is the whole detector.  SpecDetector and SpecErrors are the        *)
(* detector in two environments, each with a part of the events: every     *)
(* behaviour of either is a behaviour of Spec.                             *)
(*                                                                         *)
(* The duration-only detector (the hook useSpeechRecognition, in its       *)
(* variant with a fixed window and in its variant with a window scaled by  *)
(* the length of the text), the page app/page.tsx that drives the          *)
(* interview with it, and lib/ai-interviewer.ts are kept in three records. *)
(* SpecFixedWindow, SpecLengthScaled and SpecDynamicTimeout are the hook   *)
(* with a caller of its own, SpecInterview is the page with its hook and   *)
(* its interviewer, SpecInterviewer is the interviewer alone.  In these    *)
(* the time is counted in milliseconds.                                    *)
(***************************************************************************)
EXTENDS Integers, Sequences, FiniteSets, TLC

(***************************************************************************)
(* Bounds of the model.                                                    *)
(***************************************************************************)
\* longest accumulated final transcript (characters)
MaxLen == 1
\* startListening calls awaiting MicVAD.new, and restart timers pending, at once
MaxPending == 1
\* running instances (MicVAD, SpeechRecognition) and pending timers that no ref holds
\* any more, of each kind
MaxLeaked == 1
\* pending end-of-speech timers that no ref holds, where a claim needs two
MaxOrphans == 2
\* longest final text of the duration-only detector (characters)
MaxSpoken == 12
\* longest final text dictated to the length-scaled detector (characters)
MaxDictated == 88
\* the largest question number a caller other than the page drives the
\* AIInterviewer to
MaxAnswers == 9

(***************************************************************************)
(* The configuration of the session (config argument of the hook), in      *)
(* ticks: minSpeechDuration 1000 ms, silenceAfterSpeechTimeout 2000 ms;    *)
(* vadThreshold in percent.                                                *)
(***************************************************************************)
minSpeechDuration == 1
silenceAfterSpeechTimeout == 2
vadThreshold == 80
\* the delay of the auto-restart after a transient recognition error, 1000 ms
restartDelay == 1

(***************************************************************************)
(* Text.  A string is a sequence of characters; " " is white space.        *)
(***************************************************************************)
Empty == << >>

\* String.prototype.trim
RECURSIVE TrimLeft(_)
TrimLeft(s) == IF s # Empty /\ Head(s) = " " THEN TrimLeft(Tail(s)) ELSE s

RECURSIVE TrimRight(_)
TrimRight(s) ==
    IF s # Empty /\ s[Len(s)] = " " THEN TrimRight(SubSeq(s, 1, Len(s) - 1)) ELSE s

Trim(s) == TrimRight(TrimLeft(s))

(***************************************************************************)
(* Inputs delivered by the browser.                                        *)
(***************************************************************************)
\* frame probabilities of MicVAD.onFrameProcessed, in percent
Probabilities == {80, 85}
\* event.error of SpeechRecognition.onerror
RecErrors == {"no-speech", "not-allowed"}
\* result[0].confidence in percent; 0 stands for a missing confidence
Confidences == {0, 90}
\* one entry of event.results
Results == [isFinal : BOOLEAN, transcript : {<<"a">>, <<" ">>}, confidence : Confidences]
\* the entries event.results[event.resultIndex ..] of one result event: one entry,
\* or a final entry followed by an interim one
ResultEvents ==
    {<<r>> : r \in {x \in Results : IF x.isFinal
                                     THEN x.confidence = 90
                                     ELSE x.transcript = <<"a">> /\ x.confidence = 0}}
\* the result events without interim entries
FinalResultEvents ==
    {event \in ResultEvents : \A i \in 1..Len(event) : event[i].isFinal}
\* the errors after which the recognition cannot go on
FatalErrors == RecErrors \ {"no-speech", "audio-capture"}

VARIABLES
    \* ---- useEnhancedSpeechRecognition ----
    transcript,             \* useState('')
    isListening,            \* useState(false)
    isSupported,            \* useState(false), set by the effect on mount
    confidence,             \* useState(0)
    error,                  \* useState(null)
    recognitionRef,         \* "null", or the state of the SpeechRecognition instance held
    finalTranscriptRef,
    interimTranscriptRef,
    sinceSpeechStart,       \* Date.now() - speechStartTimeRef.current, up to minSpeechDuration
    speechEndTimerRef,      \* "null", or "handle": the handle of the last timer armed
    hasCapturedSpeechRef,
    effectListening,        \* isListening of the last run of the effect
    \* ---- useStreamingVAD ----
    vadIsListening,         \* useState(false)
    vadRef,                 \* "null", or the state of the MicVAD instance the ref holds
    pendingNew,             \* startListening calls awaiting MicVAD.new
    \* ---- the browser ----
    speechEndTimer,         \* time left of the timer speechEndTimerRef holds; -1: not pending
    orphanTimers,           \* time left of the pending timers whose handle is lost
    restartTimers,          \* time left of the restart timeouts of onerror that will restart
    leakedVADs,             \* running MicVAD instances that vadRef no longer holds
    leakedRecs,             \* started SpeechRecognition instances recognitionRef no longer holds
    \* ---- what the caller observes of the current session ----
    turnCompletes,          \* onSpeechEnd calls since the last startListening, up to 2
    lastEmitted,            \* the text of the last onSpeechEnd call
    stopped,                \* the caller has called stopListening since the last startListening
    lastSpeechEnd,          \* what the last speech-end found, if the session went on since
                            \* without speech: "short" (less than minSpeechDuration),
                            \* "empty" (long enough, speech captured, no final text); or "no"
    \* ---- the page and the hook it uses ----
    speechRecognition,      \* useSpeechRecognition: the state, the refs and the timers of
                            \* the duration-only detector
    page,                   \* app/page.tsx: the state of Home and of its pending calls
    aiInterviewer           \* aiInterviewerRef.current: NoInterviewer, or the AIInterviewer

enhancedVars == <<transcript, isListening, isSupported, confidence, error,
                  recognitionRef, finalTranscriptRef, interimTranscriptRef,
                  sinceSpeechStart, speechEndTimerRef, hasCapturedSpeechRef,
                  effectListening>>
vadVars == <<vadIsListening, vadRef, pendingNew>>
browserVars == <<speechEndTimer, orphanTimers, restartTimers, leakedVADs, leakedRecs>>
observed == <<turnCompletes, lastEmitted, stopped, lastSpeechEnd>>
detectorVars == <<enhancedVars, vadVars, browserVars, observed>>
appVars == <<speechRecognition, page, aiInterviewer>>
vars == <<detectorVars, appVars>>

(***************************************************************************)
(* The browser's objects.                                                  *)
(***************************************************************************)
\* A SpeechRecognition instance is its state st ("idle", "starting", "started",
\* "stopping") and the isListening its handlers close over: the isListening of the
\* run of the effect that created it.  recognitionRef holds the instance of the
\* last run, so it is kept as the state alone.
HeldRecognition == [st |-> recognitionRef, listening |-> effectListening]

\* SpeechRecognition.start() throws InvalidStateError unless the instance is idle
RecCanStart(st) == st = "idle"
\* a stop() that ends a stopping instance at once, which the browser's does not do
RecStopEnds(st) ==
    IF st \in {"starting", "started"} THEN "stopping"
    ELSE IF st = "stopping" THEN "idle" ELSE st
\* SpeechRecognition.stop() is ignored by an instance that is not started
RecStop(st) == IF st \in {"starting", "started"} THEN "stopping" ELSE st

\* the instances that can deliver events: the one recognitionRef holds, and the leaked ones
Recognitions == (IF recognitionRef = "null" THEN {} ELSE {HeldRecognition}) \cup leakedRecs

\* timers whose delay has elapsed run before the clock moves on
NoTimerDue ==
    /\ speechEndTimer # 0
    /\ 0 \notin orphanTimers
    /\ 0 \notin restartTimers

(***************************************************************************)
(* The duration-only detector: the hook useSpeechRecognition, in its two   *)
(* variants.  "fixed" is hooks/useSpeechRecognition.ts, which arms the     *)
(* silence timer with silenceTimeout; "scaled" is the variant that         *)
(* shortens the delay as the final text grows.  Here the time is counted   *)
(* in milliseconds, and lastSpeechTimeRef is kept as                       *)
(* Date.now() - lastSpeechTimeRef.current, up to the largest value the     *)
(* code compares it with.  confidence and silenceTimerRef are written and  *)
(* never read by a callback in a way that changes what it does             *)
(* (clearTimeout of a handle that is no longer pending does nothing); they *)
(* are not part of the state.                                              *)
(***************************************************************************)
\* minimumSpeechDurationRef = useRef(1000)
minimumSpeechDuration == 1000
\* the delay of the retry in startListening of the scaled variant
retryDelay == 100
\* setTimeout(() => askQuestion(...), 1500) of the page
askDelay == 1500
\* the longest step of the clock of the model, in ms
ClockStep == 500

\* what the hook is called with: silenceTimeout in ms (multiples of 10)
SilenceTimeouts == {500, 1000, 2000, 2500, 3000}

\* the largest value Date.now() - lastSpeechTimeRef.current is compared with
LongAgo(silenceTimeout) ==
    IF silenceTimeout >= minimumSpeechDuration THEN silenceTimeout
    ELSE minimumSpeechDuration

\* the hook after its mount: the effect has created the recognition
useSpeechRecognition(variant, silenceTimeout) ==
    [variant              |-> variant,
     silenceTimeout       |-> silenceTimeout,
     transcript           |-> Empty,
     isListening          |-> FALSE,
     isSupported          |-> TRUE,
     recognitionRef       |-> "idle",
     finalTranscriptRef   |-> Empty,
     interimTranscriptRef |-> Empty,
     sinceLastSpeech      |-> LongAgo(silenceTimeout),
     speechStartedRef     |-> FALSE,
     \* the pending silence timer: time left (-1: none) and what its callback
     \* closed over
     silenceTimer         |-> -1,
     dynamicTimeout       |-> 0,
     hasMinimumDuration   |-> FALSE,
     \* the pending retry of startListening: time left (-1: none)
     retryTimer           |-> -1,
     \* stopped instances the effect has replaced in recognitionRef
     leaked               |-> 0,
     \* what the caller observes: the onSpeechEnd calls since the last
     \* startListening (up to 2), the text of the last one, and the delay the
     \* last silence timer of the session was armed with (-1: none)
     speechEnds           |-> 0,
     lastSpeechEndText    |-> Empty,
     armedDelay           |-> -1]

\* the page after its mount, with an API key
Home ==
    [interviewState     |-> "waiting",
     isInterviewStarted |-> FALSE,
     \* "" or "question": a question of the interviewer, which is never empty
     currentQuestion    |-> "",
     questionCount      |-> 0,
     \* the calls in progress, each at its await ("idle": not in progress)
     startInterview     |-> "idle",
     askQuestion        |-> "idle",
     handleSpeechEnd    |-> "idle",
     \* the pending setTimeout that calls askQuestion: time left (-1: none)
     askTimer           |-> -1,
     \* what the candidate observes: the questions asked (calls of askQuestion)
     \* and the listening sessions started by the page, since startInterview
     questionsAsked     |-> 0,
     listenings         |-> 0]

\* aiInterviewerRef.current before startInterview: no AIInterviewer
NoInterviewer ==
    [ref                   |-> "null",
     openai                |-> FALSE,
     interviewType         |-> "general",
     conversationHistory   |-> <<>>,
     currentQuestionNumber |-> 0,
     \* the method that awaits openai.chat.completions.create ("none": no call
     \* is in progress), and the text its promise was fulfilled with
     awaiting              |-> "none",
     returned              |-> Empty]

\* new AIInterviewer('general', apiKey): the client exists if there is a key
AIInterviewer(apiKey) ==
    [NoInterviewer EXCEPT !.ref = "AIInterviewer", !.openai = apiKey]

(***************************************************************************)
(* Init: the hook is mounted, its effects have run, nothing is listening.  *)
(***************************************************************************)
InitDetector ==
    /\ transcript = Empty
    /\ isListening = FALSE
    /\ isSupported \in BOOLEAN
    /\ confidence = 0
    /\ error = "null"
    /\ recognitionRef = IF isSupported THEN "idle" ELSE "null"
    /\ finalTranscriptRef = Empty
    /\ interimTranscriptRef = Empty
    /\ sinceSpeechStart = minSpeechDuration
    /\ speechEndTimerRef = "null"
    /\ hasCapturedSpeechRef = FALSE
    /\ effectListening = FALSE
    /\ vadIsListening = FALSE
    /\ vadRef = "null"
    /\ pendingNew = 0
    /\ speechEndTimer = -1
    /\ orphanTimers = {}
    /\ restartTimers = {}
    /\ leakedVADs = {}
    /\ leakedRecs = {}
    /\ turnCompletes = 0
    /\ lastEmitted = Empty
    /\ stopped = FALSE
    /\ lastSpeechEnd = "no"

\* the VAD-fused detector alone: the page is mounted and left alone
Init ==
    /\ InitDetector
    /\ speechRecognition = useSpeechRecognition("fixed", 3000)
    /\ page = Home
    /\ aiInterviewer = NoInterviewer

(***************************************************************************)
(* useStreamingVAD.stopListening: the instance vadRef holds is destroyed.  *)
(* streamRef and audioContextRef are never assigned and stay null.         *)
(***************************************************************************)
vadStopListening ==
    /\ vadRef' = "null"
    /\ vadIsListening' = FALSE

(***************************************************************************)
(* useEnhancedSpeechRecognition.stopListening.  It leaves the transcript   *)
(* refs and hasCapturedSpeechRef as they are.                              *)
(***************************************************************************)
stopListening ==
    /\ vadStopListening
    /\ recognitionRef' = RecStop(recognitionRef)
    /\ speechEndTimer' = -1
    /\ speechEndTimerRef' = "null"
    /\ isListening' = FALSE

\* the caller stops the session
StopListening ==
    /\ stopListening
    /\ stopped' = TRUE
    /\ lastSpeechEnd' = "no"
    /\ UNCHANGED <<transcript, isSupported, confidence, error, finalTranscriptRef,
                   interimTranscriptRef, sinceSpeechStart, hasCapturedSpeechRef,
                   effectListening, pendingNew, orphanTimers, restartTimers,
                   leakedVADs, leakedRecs, turnCompletes, lastEmitted>>
    /\ UNCHANGED appVars

(***************************************************************************)
(* useEnhancedSpeechRecognition.startListening.                            *)
(***************************************************************************)
\* recognitionRef.current.start() in the try block; the catch block sets the error
startRecognition(err) ==
    IF recognitionRef = "null"
    THEN /\ error' = err
         /\ UNCHANGED recognitionRef
    ELSE IF RecCanStart(recognitionRef)
         THEN /\ recognitionRef' = "starting"
              /\ error' = err
         ELSE /\ error' = "failed to start"
              /\ UNCHANGED recognitionRef

(***************************************************************************)
(* The call of startListening up to the await of MicVAD.new.  The guard of *)
(* useStreamingVAD.startListening reads the isListening its closure was    *)
(* created with: the caller holds the function of the current render, or   *)
(* one of a render before the VAD hook was listening.  When the VAD hook   *)
(* answers 'Already listening', the recognition is started at once.        *)
(***************************************************************************)
\* a test that never rejects the call
NotSupportedNever == FALSE
\* the test 'if (!isSupported)' that startListening begins with
NotSupported == ~isSupported

StartListening(closedOverListening) ==
    /\ IF NotSupported
       THEN /\ error' = "not supported"
            /\ UNCHANGED <<transcript, isListening, isSupported, confidence,
                           recognitionRef, finalTranscriptRef, interimTranscriptRef,
                           sinceSpeechStart, speechEndTimerRef, hasCapturedSpeechRef,
                           effectListening, vadVars, browserVars, observed>>
       ELSE /\ finalTranscriptRef' = Empty
            /\ interimTranscriptRef' = Empty
            /\ hasCapturedSpeechRef' = FALSE
            /\ sinceSpeechStart' = minSpeechDuration
            /\ transcript' = Empty
            /\ confidence' = 0
            /\ speechEndTimer' = -1
            /\ speechEndTimerRef' = "null"
            /\ IF closedOverListening
               THEN /\ startRecognition("null")
                    /\ UNCHANGED <<vadIsListening, pendingNew>>
               ELSE /\ pendingNew < MaxPending
                    /\ error' = "null"
                    /\ vadIsListening' = TRUE
                    /\ pendingNew' = pendingNew + 1
                    /\ UNCHANGED recognitionRef
            /\ turnCompletes' = 0
            /\ lastEmitted' = Empty
            /\ stopped' = FALSE
            /\ lastSpeechEnd' = "no"
            /\ UNCHANGED <<isListening, isSupported, effectListening, vadRef,
                           orphanTimers, restartTimers, leakedVADs, leakedRecs>>
    /\ UNCHANGED appVars

(***************************************************************************)
(* useStreamingVAD.startListening after MicVAD.new has resolved: the       *)
(* instance is stored in vadRef, over the instance it held, and started;   *)
(* then startListening of the enhanced hook resumes and starts the         *)
(* recognition.                                                            *)
(***************************************************************************)
VADNewResolve ==
    /\ pendingNew > 0
    /\ pendingNew' = pendingNew - 1
    /\ IF vadRef = "null"
       THEN UNCHANGED leakedVADs
       ELSE /\ Cardinality(leakedVADs \cup {vadRef}) <= MaxLeaked
            /\ leakedVADs' = leakedVADs \cup {vadRef}
    /\ vadRef' = "running"
    /\ startRecognition(error)
    /\ UNCHANGED <<transcript, isListening, isSupported, confidence,
                   finalTranscriptRef, interimTranscriptRef, sinceSpeechStart,
                   speechEndTimerRef, hasCapturedSpeechRef, effectListening,
                   vadIsListening, speechEndTimer, orphanTimers, restartTimers,
                   leakedRecs, observed>>
    /\ UNCHANGED appVars

\* MicVAD.new rejects (no microphone): the catch blocks of both hooks run
VADNewReject ==
    /\ pendingNew > 0
    /\ pendingNew' = pendingNew - 1
    /\ vadIsListening' = FALSE
    /\ error' = "failed to start"
    /\ UNCHANGED <<transcript, isListening, isSupported, confidence,
                   recognitionRef, finalTranscriptRef, interimTranscriptRef,
                   sinceSpeechStart, speechEndTimerRef, hasCapturedSpeechRef,
                   effectListening, vadRef, browserVars, observed>>
    /\ UNCHANGED appVars

resetTranscript ==
    /\ transcript' = Empty
    /\ confidence' = 0
    /\ finalTranscriptRef' = Empty
    /\ interimTranscriptRef' = Empty
    /\ hasCapturedSpeechRef' = FALSE
    /\ sinceSpeechStart' = minSpeechDuration
    /\ lastSpeechEnd' = "no"
    /\ UNCHANGED <<isListening, isSupported, error, recognitionRef,
                   speechEndTimerRef, effectListening, vadVars, browserVars,
                   turnCompletes, lastEmitted, stopped>>
    /\ UNCHANGED appVars

(***************************************************************************)
(* The callbacks useEnhancedSpeechRecognition hands to useStreamingVAD.    *)
(* silenceTimerRef is never assigned, so it stays null and its branches    *)
(* never run.                                                              *)
(***************************************************************************)
handleVADSpeechStart ==
    /\ sinceSpeechStart' = 0
    /\ hasCapturedSpeechRef' = TRUE
    /\ speechEndTimer' = -1
    /\ speechEndTimerRef' = "null"
    /\ UNCHANGED orphanTimers

\* the conditions of the if statement of handleVADSpeechEnd
hasMinimumDurationAlways == TRUE
hasMinimumDuration == sinceSpeechStart >= minSpeechDuration
hasContentUntrimmed == Len(finalTranscriptRef) > 0
hasContent == Len(Trim(finalTranscriptRef)) > 0
ValidSpeechEnd == hasMinimumDuration /\ hasContent /\ hasCapturedSpeechRef

\* the timer speechEndTimerRef held goes on running when the ref is overwritten
handleVADSpeechEndWithin(maxOrphans) ==
    /\ IF ValidSpeechEnd
       THEN /\ speechEndTimer' = silenceAfterSpeechTimeout
            /\ speechEndTimerRef' = "handle"
            /\ IF speechEndTimer >= 0
               THEN /\ Cardinality(orphanTimers \cup {speechEndTimer}) <= maxOrphans
                    /\ orphanTimers' = orphanTimers \cup {speechEndTimer}
               ELSE UNCHANGED orphanTimers
       ELSE UNCHANGED <<speechEndTimer, speechEndTimerRef, orphanTimers>>
    /\ UNCHANGED <<sinceSpeechStart, hasCapturedSpeechRef>>

handleVADSpeechEnd == handleVADSpeechEndWithin(MaxLeaked)

handleVADSpeaking(probability) ==
    /\ IF probability > vadThreshold /\ speechEndTimerRef # "null"
       THEN /\ speechEndTimer' = -1
            /\ speechEndTimerRef' = "null"
       ELSE UNCHANGED <<speechEndTimer, speechEndTimerRef>>
    /\ UNCHANGED <<sinceSpeechStart, hasCapturedSpeechRef, orphanTimers>>

(***************************************************************************)
(* The callbacks useStreamingVAD gives to MicVAD.new.  An instance reports *)
(* a speech-start, then a speech-end or a misfire, and so on; frames are   *)
(* reported all the time.  An instance that was not destroyed goes on      *)
(* reporting, whether vadRef still holds it (held) or not.                 *)
(***************************************************************************)
VADIs(held, st) == IF held THEN vadRef = st ELSE st \in leakedVADs

VADBecomes(held, from, to) ==
    IF held
    THEN vadRef' = to /\ UNCHANGED leakedVADs
    ELSE leakedVADs' = (leakedVADs \ {from}) \cup {to} /\ UNCHANGED vadRef

vadUntouched ==
    UNCHANGED <<transcript, isListening, isSupported, confidence, error,
                recognitionRef, finalTranscriptRef, interimTranscriptRef,
                effectListening, vadIsListening, pendingNew, restartTimers,
                leakedRecs, turnCompletes, lastEmitted, stopped>>

onSpeechStart(held) ==
    /\ VADIs(held, "running")
    /\ VADBecomes(held, "running", "speaking")
    /\ handleVADSpeechStart
    /\ lastSpeechEnd' = "no"
    /\ vadUntouched
    /\ UNCHANGED appVars

\* the speech-end callback of a MicVAD instance, with up to maxOrphans timers
\* that no ref holds
onSpeechEndWithin(held, maxOrphans) ==
    /\ VADIs(held, "speaking")
    /\ VADBecomes(held, "speaking", "running")
    /\ handleVADSpeechEndWithin(maxOrphans)
    /\ lastSpeechEnd' = IF sinceSpeechStart < minSpeechDuration THEN "short"
                        ELSE IF hasCapturedSpeechRef /\ Trim(finalTranscriptRef) = Empty
                             THEN "empty"
                             ELSE "no"
    /\ vadUntouched
    /\ UNCHANGED appVars

onSpeechEnd(held) == onSpeechEndWithin(held, MaxLeaked)

onVADMisfire(held) ==
    /\ VADIs(held, "speaking")
    /\ VADBecomes(held, "speaking", "running")
    /\ UNCHANGED <<speechEndTimer, speechEndTimerRef, orphanTimers, sinceSpeechStart,
                   hasCapturedSpeechRef, lastSpeechEnd>>
    /\ vadUntouched
    /\ UNCHANGED appVars

onFrameProcessed(held, probability) ==
    /\ IF held THEN vadRef # "null" ELSE leakedVADs # {}
    /\ handleVADSpeaking(probability)
    /\ UNCHANGED <<vadRef, leakedVADs, lastSpeechEnd>>
    /\ vadUntouched
    /\ UNCHANGED appVars

(***************************************************************************)
(* The callback of a timer armed by handleVADSpeechEnd: the one whose      *)
(* handle speechEndTimerRef holds (held), or one whose handle is lost.     *)
(* All are armed with the same delay and the lost ones earlier, so that    *)
(* those fire first.                                                       *)
(***************************************************************************)
SpeechEndTimerFires(held) ==
    /\ IF held THEN speechEndTimer = 0 /\ 0 \notin orphanTimers ELSE 0 \in orphanTimers
    /\ orphanTimers' = IF held THEN orphanTimers ELSE orphanTimers \ {0}
    /\ LET finalText == Trim(finalTranscriptRef)
       IN  IF finalText # Empty
           THEN /\ stopListening
                /\ turnCompletes' = IF turnCompletes < 2 THEN turnCompletes + 1 ELSE 2
                /\ lastEmitted' = finalText
                /\ lastSpeechEnd' = "no"
           ELSE /\ speechEndTimer' = IF held THEN -1 ELSE speechEndTimer
                /\ UNCHANGED <<speechEndTimerRef, isListening, vadRef, vadIsListening,
                               recognitionRef, turnCompletes, lastEmitted, lastSpeechEnd>>
    /\ UNCHANGED <<transcript, isSupported, confidence, error, finalTranscriptRef,
                   interimTranscriptRef, sinceSpeechStart, hasCapturedSpeechRef,
                   effectListening, pendingNew, restartTimers, leakedVADs, leakedRecs,
                   stopped>>
    /\ UNCHANGED appVars

(***************************************************************************)
(* The handlers the effect installs on a SpeechRecognition instance rec:   *)
(* the one recognitionRef holds (held), or a leaked one.                   *)
(***************************************************************************)
RECURSIVE FinalOf(_)
FinalOf(results) ==
    IF results = Empty THEN Empty
    ELSE (IF Head(results).isFinal THEN Head(results).transcript ELSE Empty)
           \o FinalOf(Tail(results))

RECURSIVE InterimOf(_)
InterimOf(results) ==
    IF results = Empty THEN Empty
    ELSE (IF Head(results).isFinal THEN Empty ELSE Head(results).transcript)
           \o InterimOf(Tail(results))

Max(a, b) == IF a >= b THEN a ELSE b

\* result[0].confidence || 0.8
ResultConfidence(r) == IF r.confidence = 0 THEN 80 ELSE r.confidence

RECURSIVE MaxConfidenceOf(_)
MaxConfidenceOf(results) ==
    IF results = Empty THEN 0
    ELSE Max(IF Head(results).isFinal THEN ResultConfidence(Head(results)) ELSE 0,
             MaxConfidenceOf(Tail(results)))

RecIs(held, rec) ==
    IF held THEN recognitionRef # "null" /\ rec = HeldRecognition ELSE rec \in leakedRecs

\* a leaked instance that has ended is garbage
RecBecomes(held, rec, st) ==
    IF held
    THEN recognitionRef' = st /\ UNCHANGED leakedRecs
    ELSE /\ leakedRecs' = (leakedRecs \ {rec})
                            \cup (IF st = "idle" THEN {} ELSE {[rec EXCEPT !.st = st]})
         /\ UNCHANGED recognitionRef

recUntouched ==
    UNCHANGED <<isSupported, sinceSpeechStart, speechEndTimerRef, hasCapturedSpeechRef,
                effectListening, vadVars, speechEndTimer, orphanTimers, leakedVADs,
                observed>>

onstart(held, rec) ==
    /\ RecIs(held, rec)
    /\ rec.st = "starting"
    /\ RecBecomes(held, rec, "started")
    /\ isListening' = TRUE
    /\ UNCHANGED <<transcript, confidence, error, finalTranscriptRef,
                   interimTranscriptRef, restartTimers>>
    /\ recUntouched
    /\ UNCHANGED appVars

\* a display that shows the final text alone
fullTranscriptFinalOnly(finalText, interimTranscript) == finalText
\* const fullTranscript = finalTranscriptRef.current + interimTranscript
fullTranscript(finalText, interimTranscript) == finalText \o interimTranscript

\* a started instance delivers results; the final text is kept within MaxLen
onresult(held, rec, event) ==
    /\ RecIs(held, rec)
    /\ rec.st = "started"
    /\ Len(finalTranscriptRef) + Len(FinalOf(event)) <= MaxLen
    /\ LET finalTranscript == FinalOf(event)
           interimTranscript == InterimOf(event)
           maxConfidence == MaxConfidenceOf(event)
       IN  /\ confidence' = IF maxConfidence = 0 THEN 80 ELSE maxConfidence
           /\ finalTranscriptRef' = IF finalTranscript # Empty
                                    THEN finalTranscriptRef \o finalTranscript
                                    ELSE finalTranscriptRef
           /\ interimTranscriptRef' = interimTranscript
           /\ transcript' = fullTranscript(finalTranscriptRef', interimTranscript)
    /\ UNCHANGED <<isListening, error, recognitionRef, restartTimers, leakedRecs>>
    /\ recUntouched
    /\ UNCHANGED appVars

\* The browser reports the error and then ends the recognition.  The restart
\* timeout tests the isListening its handler closed over, which never changes:
\* one armed by a handler that closed over false does nothing when it fires,
\* and only the others are kept in restartTimers.
onerror(held, rec, e) ==
    /\ RecIs(held, rec)
    /\ rec.st \in {"starting", "started", "stopping"}
    /\ RecBecomes(held, rec, "stopping")
    /\ error' = e
    /\ IF (e = "no-speech" \/ e = "audio-capture") /\ rec.listening
       THEN /\ Cardinality(restartTimers \cup {restartDelay}) <= MaxPending
            /\ restartTimers' = restartTimers \cup {restartDelay}
       ELSE UNCHANGED restartTimers
    /\ UNCHANGED <<transcript, confidence, isListening, finalTranscriptRef,
                   interimTranscriptRef>>
    /\ recUntouched
    /\ UNCHANGED appVars

onend(held, rec) ==
    /\ RecIs(held, rec)
    /\ rec.st \in {"started", "stopping"}
    /\ RecBecomes(held, rec, "idle")
    /\ isListening' = FALSE
    /\ UNCHANGED <<transcript, confidence, error, finalTranscriptRef,
                   interimTranscriptRef, restartTimers>>
    /\ recUntouched
    /\ UNCHANGED appVars

\* the callback of the restart timer armed by onerror
RestartTimerFires ==
    /\ 0 \in restartTimers
    /\ restartTimers' = restartTimers \ {0}
    /\ recognitionRef' = IF recognitionRef # "null" /\ RecCanStart(recognitionRef)
                         THEN "starting"
                         ELSE recognitionRef
    /\ UNCHANGED <<transcript, isListening, isSupported, confidence, error,
                   finalTranscriptRef, interimTranscriptRef, sinceSpeechStart,
                   speechEndTimerRef, hasCapturedSpeechRef, effectListening, vadVars,
                   speechEndTimer, orphanTimers, leakedVADs, leakedRecs, observed>>
    /\ UNCHANGED appVars

(***************************************************************************)
(* The effect with dependencies [vad.isVADSupported, isListening]: when    *)
(* isListening has changed, its cleanup runs and then its body, which      *)
(* stores a new SpeechRecognition instance in recognitionRef.  The         *)
(* instance the ref held keeps its handlers and goes on if it was started. *)
(***************************************************************************)
EffectRuns ==
    /\ isListening # effectListening
    /\ recognitionRef # "null"
    /\ IF recognitionRef = "idle"
       THEN UNCHANGED leakedRecs
       ELSE /\ Cardinality(leakedRecs \cup {HeldRecognition}) <= MaxLeaked
            /\ leakedRecs' = leakedRecs \cup {HeldRecognition}
    /\ recognitionRef' = "idle"
    /\ speechEndTimer' = -1
    /\ effectListening' = isListening
    /\ UNCHANGED <<transcript, isListening, isSupported, confidence, error,
                   finalTranscriptRef, interimTranscriptRef, sinceSpeechStart,
                   speechEndTimerRef, hasCapturedSpeechRef, vadVars, orphanTimers,
                   restartTimers, leakedVADs, observed>>
    /\ UNCHANGED appVars

\* time passes: one tick
Elapse(left) == IF left > 0 THEN left - 1 ELSE left

Tick ==
    /\ NoTimerDue
    /\ speechEndTimer' = Elapse(speechEndTimer)
    /\ orphanTimers' = {Elapse(left) : left \in orphanTimers}
    /\ restartTimers' = {Elapse(left) : left \in restartTimers}
    /\ sinceSpeechStart' = IF sinceSpeechStart < minSpeechDuration
                           THEN sinceSpeechStart + 1
                           ELSE sinceSpeechStart
    /\ UNCHANGED <<transcript, isListening, isSupported, confidence, error,
                   recognitionRef, finalTranscriptRef, interimTranscriptRef,
                   speechEndTimerRef, hasCapturedSpeechRef, effectListening, vadVars,
                   leakedVADs, leakedRecs, observed>>
    /\ UNCHANGED appVars

\* the callback of a timer armed by handleVADSpeechEnd calls onSpeechEnd
Emits ==
    /\ \E held \in BOOLEAN : SpeechEndTimerFires(held)
    /\ Trim(finalTranscriptRef) # Empty

(***************************************************************************)
(* The duration-only detector: the handlers and functions of               *)
(* useSpeechRecognition.  The effect has dependencies [onSpeechEnd,        *)
(* silenceTimeout]: the handlers call the onSpeechEnd of the render that   *)
(* created the instance.  The restart that onerror of the scaled variant   *)
(* arms tests the isListening the effect closed over, which is false when  *)
(* the effect runs; its callback does nothing and is not kept.             *)
(***************************************************************************)
\* the text of the recognition service: an utterance of 11 characters, a blank
\* final segment, and an interim fragment
Utterance == <<"h", "e", "l", "l", "o", " ", "w", "o", "r", "l", "d">>
SpeechResultEvents ==
    {<<[isFinal |-> TRUE, transcript |-> Utterance]>>,
     <<[isFinal |-> TRUE, transcript |-> <<" ">>]>>,
     <<[isFinal |-> FALSE, transcript |-> <<"a">>]>>}
\* the results of a service that delivers whole utterances only
UtteranceEvents == {<<[isFinal |-> TRUE, transcript |-> Utterance]>>}

\* a delay that only follows the length of the text, without the floor of 70%
dynamicTimeoutUnfloored(silenceTimeout, length) == silenceTimeout - 10 * length
\* Math.max(silenceTimeout * 0.7, silenceTimeout - (length / 10) * 100)
dynamicTimeout(silenceTimeout, length) ==
    Max((7 * silenceTimeout) \div 10, silenceTimeout - 10 * length)

\* the delay the silence timer is armed with
armedWith(variant, silenceTimeout, length) ==
    IF variant = "fixed" THEN silenceTimeout
    ELSE Max(dynamicTimeout(silenceTimeout, length), 1000)

(***************************************************************************)
(* AIInterviewer.  A text is a sequence of pieces, a piece being a blank   *)
(* " " or a run of other characters: a predefined sentence is written as   *)
(* one piece.                                                              *)
(***************************************************************************)
FirstFallbackQuestion == <<"Tell me about yourself and what brings you here today.">>
WrapUpQuestion ==
    <<"Thank you for your thoughtful responses. Do you have any questions for us about the role or company?">>
fallbackQuestions ==
    << <<"What are your greatest strengths?">>,
       <<"Where do you see yourself in 5 years?">>,
       <<"Why are you interested in this position?">>,
       <<"Describe a challenging situation you've faced.">>,
       <<"What motivates you in your work?">>,
       <<"How do you handle working under pressure?">>,
       <<"What questions do you have for us?">> >>
appreciations ==
    << <<"Thank you for sharing that.">>,
       <<"That's a great perspective.">>,
       <<"I appreciate your honesty.">>,
       <<"Interesting point.">>,
       <<"Thank you for that insight.">>,
       <<"Great example.">>,
       <<"That shows good thinking.">>,
       <<"I can see you've given this thought.">> >>

\* Math.floor(Math.random() * appreciations.length)
Randoms == 0 .. Len(appreciations) - 1

\* how openai.chat.completions.create settles: it throws, or its first choice
\* has this content (Empty: '', null, or no choice at all)
RemoteOutcomes ==
    {[throws |-> TRUE, content |-> Empty]}
    \cup {[throws |-> FALSE, content |-> c] :
             c \in {<<"Generated by the model.">>,
                    <<" ", "Generated by the model.", " ">>,
                    <<" ">>,
                    Empty}}

\* a fallback that has no text
getFallbackQuestionNothing(currentQuestionNumber) == Empty
getFallbackQuestion(currentQuestionNumber) ==
    LET last == Len(fallbackQuestions) - 1
        index == IF currentQuestionNumber - 2 <= last
                 THEN currentQuestionNumber - 2 ELSE last
    IN  fallbackQuestions[(IF index >= 0 THEN index ELSE 0) + 1]

getFallbackAppreciation(random) == appreciations[random + 1]

\* if (this.currentQuestionNumber > 7): enough questions have been asked
enoughQuestions(currentQuestionNumber) == currentQuestionNumber > 7

\* generateFirstQuestion up to its await
generateFirstQuestion(ai) ==
    IF ~ai.openai
    THEN [ai EXCEPT !.currentQuestionNumber = 1,
                    !.returned = FirstFallbackQuestion]
    ELSE [ai EXCEPT !.awaiting = "generateFirstQuestion"]

\* the answers and the questions a caller passes to generateNextQuestion; the
\* page passes the text of onSpeechEnd and its currentQuestion, kept as names
PreviousAnswers == {"transcript"}
CurrentQuestions == {"currentQuestion"}

\* a generateNextQuestion that keeps no history
pushedNothing(conversationHistory, turn) == conversationHistory
\* this.conversationHistory.push({question: currentQuestion, answer: previousAnswer})
pushed(conversationHistory, turn) == Append(conversationHistory, turn)

\* generateNextQuestion up to its await
generateNextQuestion(ai, previousAnswer, currentQuestion) ==
    LET next == [ai EXCEPT !.conversationHistory =
                               pushed(@, [question |-> currentQuestion,
                                          answer   |-> previousAnswer]),
                           !.currentQuestionNumber = @ + 1]
    IN  IF enoughQuestions(next.currentQuestionNumber)
        THEN [next EXCEPT !.returned = WrapUpQuestion]
        ELSE IF ~ai.openai
             THEN [next EXCEPT !.returned =
                                   getFallbackQuestion(next.currentQuestionNumber)]
             ELSE [next EXCEPT !.awaiting = "generateNextQuestion"]

\* generateAppreciation up to its await
generateAppreciation(ai, random) ==
    IF ~ai.openai
    THEN [ai EXCEPT !.returned = getFallbackAppreciation(random)]
    ELSE [ai EXCEPT !.awaiting = "generateAppreciation"]

\* content?.trim() || fallback, and the catch block
contentOr(outcome, fallback) ==
    IF outcome.throws \/ Trim(outcome.content) = Empty THEN fallback
    ELSE Trim(outcome.content)

\* the rest of the method that awaits the remote call
chatCompletion(ai, outcome, random) ==
    IF ai.awaiting = "generateFirstQuestion"
    THEN [ai EXCEPT !.awaiting = "none",
                    !.currentQuestionNumber = 1,
                    !.returned = contentOr(outcome, FirstFallbackQuestion)]
    ELSE IF ai.awaiting = "generateNextQuestion"
    THEN [ai EXCEPT !.awaiting = "none",
                    !.returned =
                        contentOr(outcome,
                                  getFallbackQuestion(ai.currentQuestionNumber))]
    ELSE [ai EXCEPT !.awaiting = "none",
                    !.returned = contentOr(outcome, getFallbackAppreciation(random))]

\* a reset that keeps the history
resetKeepsHistory(ai) == [ai EXCEPT !.currentQuestionNumber = 0]
\* AIInterviewer.reset
resetInterviewer(ai) ==
    [ai EXCEPT !.conversationHistory = <<>>, !.currentQuestionNumber = 0]

(***************************************************************************)
(* The page.  Each of startInterview, askQuestion and handleSpeechEnd runs *)
(* up to its next await and goes on when the awaited promise settles; a    *)
(* promise that is already fulfilled is gone through in the same step.     *)
(* currentQuestion is kept as empty or not, with the choice of whether a   *)
(* new question differs from the one before.  The farewell spoken 1500 ms after the last answer *)
(* changes no state and is not modelled.                                   *)
(***************************************************************************)
\* the effect of the hook runs again when handleSpeechEnd changes with
\* currentQuestion: the pending timer is cleared and recognitionRef gets a new
\* instance, the one it held is neither stopped nor released
effectRuns(sr) ==
    [sr EXCEPT !.recognitionRef = "idle",
               !.leaked = IF sr.recognitionRef \in {"starting", "started", "stopping"}
                          THEN @ + 1 ELSE @,
               !.silenceTimer = -1,
               !.dynamicTimeout = 0,
               !.hasMinimumDuration = FALSE]

\* if (aiInterviewerRef.current.getQuestionNumber() > 7): the interview is over
interviewOverAfterEight(currentQuestionNumber) == currentQuestionNumber > 8
interviewOver(currentQuestionNumber) == currentQuestionNumber > 7

\* startInterview after generateFirstQuestion
firstQuestionReady(ai) ==
    /\ aiInterviewer' = ai
    /\ page' = [page EXCEPT !.startInterview = "idle",
                            !.currentQuestion = "question",
                            !.questionCount = 1,
                            !.askTimer = askDelay]
    /\ effectRuns(speechRecognition).leaked <= MaxLeaked
    /\ speechRecognition' = effectRuns(speechRecognition)

\* handleSpeechEnd after generateAppreciation
appreciationReady(ai) ==
    /\ aiInterviewer' = ai
    /\ page' = [page EXCEPT !.handleSpeechEnd = "speak"]
    /\ UNCHANGED speechRecognition

\* handleSpeechEnd after generateNextQuestion
nextQuestionReady(ai, changed) ==
    /\ aiInterviewer' = ai
    /\ IF interviewOver(ai.currentQuestionNumber)
       THEN /\ page' = [page EXCEPT !.handleSpeechEnd = "idle",
                                    !.interviewState = "completed"]
            /\ UNCHANGED speechRecognition
       ELSE /\ page' = [page EXCEPT !.handleSpeechEnd = "idle",
                                    !.questionCount = ai.currentQuestionNumber,
                                    !.currentQuestion = "question",
                                    !.askTimer = askDelay]
            /\ changed => effectRuns(speechRecognition).leaked <= MaxLeaked
            /\ speechRecognition' = IF changed THEN effectRuns(speechRecognition)
                                    ELSE speechRecognition

\* onSpeechEnd(text): handleSpeechEnd of the page up to its first await; it
\* does nothing without an AIInterviewer
handleSpeechEnd(text) ==
    IF Trim(text) # Empty /\ aiInterviewer.ref # "null"
    THEN \E random \in Randoms :
           LET called == generateAppreciation(aiInterviewer, random)
           IN  /\ aiInterviewer' = called
               /\ page' = [page EXCEPT
                              !.interviewState = "processing",
                              !.handleSpeechEnd =
                                  IF called.awaiting = "none" THEN "speak"
                                  ELSE "generateAppreciation"]
    ELSE UNCHANGED <<page, aiInterviewer>>

\* startListening; it leaves a pending silence timer alone
SR_started(sr) ==
    LET fresh == [sr EXCEPT !.finalTranscriptRef = Empty,
                            !.interimTranscriptRef = Empty,
                            !.transcript = Empty,
                            !.speechStartedRef = FALSE,
                            !.sinceLastSpeech =
                                IF sr.variant = "scaled" THEN 0 ELSE @,
                            !.speechEnds = 0,
                            !.lastSpeechEndText = Empty,
                            !.armedDelay = -1]
    IN  IF sr.recognitionRef = "null" \/ ~sr.isSupported THEN sr
        ELSE IF RecCanStart(sr.recognitionRef)
             THEN [fresh EXCEPT !.recognitionRef = "starting"]
             \* start() throws 'recognition has already started'
             ELSE IF sr.variant = "scaled"
                  THEN [fresh EXCEPT !.recognitionRef = RecStop(@),
                                     !.retryTimer = retryDelay]
                  ELSE fresh

SR_startListening ==
    /\ speechRecognition' = SR_started(speechRecognition)
    /\ UNCHANGED <<page, aiInterviewer, detectorVars>>

\* the retry armed by startListening of the scaled variant
SR_retryTimerFires ==
    /\ speechRecognition.retryTimer = 0
    /\ speechRecognition' =
           [speechRecognition EXCEPT
               !.retryTimer = -1,
               !.recognitionRef = IF RecCanStart(@) THEN "starting" ELSE @]
    /\ UNCHANGED <<page, aiInterviewer, detectorVars>>

SR_stopped(sr) ==
    [sr EXCEPT !.recognitionRef = RecStop(@),
               !.silenceTimer = -1,
               !.dynamicTimeout = 0,
               !.hasMinimumDuration = FALSE]

SR_stopListening ==
    /\ speechRecognition' = SR_stopped(speechRecognition)
    /\ UNCHANGED <<page, aiInterviewer, detectorVars>>

SR_reset(sr) ==
    [sr EXCEPT !.transcript = Empty,
               !.finalTranscriptRef = Empty,
               !.interimTranscriptRef = Empty,
               !.speechStartedRef = FALSE,
               !.sinceLastSpeech = IF sr.variant = "scaled" THEN 0 ELSE @]

SR_resetTranscript ==
    /\ speechRecognition' = SR_reset(speechRecognition)
    /\ UNCHANGED <<page, aiInterviewer, detectorVars>>

SR_onstart ==
    /\ speechRecognition.recognitionRef = "starting"
    /\ speechRecognition' =
           [speechRecognition EXCEPT
               !.recognitionRef = "started",
               !.isListening = TRUE,
               !.speechStartedRef = FALSE,
               !.sinceLastSpeech =
                   IF speechRecognition.variant = "scaled" THEN 0 ELSE @]
    /\ UNCHANGED <<page, aiInterviewer, detectorVars>>

\* a clearTimeout that leaves the timer pending
clearedTimerKept(left) == left
\* clearTimeout(silenceTimerRef.current): the timer with this time left is gone
clearedTimer(left) == -1

\* a started instance delivers results; the final text is kept within maxLength
SR_onresult(event, maxLength) ==
    LET sr == speechRecognition
        scaled == sr.variant = "scaled"
        finalTranscript == FinalOf(event)
        interimTranscript == InterimOf(event)
        finalText == IF finalTranscript # Empty
                     THEN sr.finalTranscriptRef \o finalTranscript
                     ELSE sr.finalTranscriptRef
        spoken == finalTranscript # Empty \/ Trim(interimTranscript) # Empty
        speechStarted == sr.speechStartedRef \/ (scaled /\ spoken)
        sinceLastSpeech == IF scaled /\ spoken THEN 0 ELSE sr.sinceLastSpeech
        hasSubstantialContent == Len(Trim(finalText)) > 10
        arms == IF scaled
                THEN finalTranscript # Empty /\ speechStarted /\ hasSubstantialContent
                ELSE finalTranscript # Empty /\ Trim(finalText) # Empty
        delay == armedWith(sr.variant, sr.silenceTimeout, Len(finalText))
    IN  /\ sr.recognitionRef = "started"
        /\ Len(sr.finalTranscriptRef) + Len(finalTranscript) <= maxLength
        /\ speechRecognition' =
               [sr EXCEPT
                   !.finalTranscriptRef = finalText,
                   !.interimTranscriptRef = interimTranscript,
                   !.transcript = finalText \o interimTranscript,
                   !.speechStartedRef = speechStarted,
                   !.sinceLastSpeech = sinceLastSpeech,
                   !.silenceTimer = IF arms THEN delay ELSE clearedTimer(@),
                   !.dynamicTimeout =
                       IF arms /\ scaled
                       THEN dynamicTimeout(sr.silenceTimeout, Len(finalText))
                       ELSE 0,
                   !.hasMinimumDuration =
                       arms /\ scaled /\ sinceLastSpeech >= minimumSpeechDuration,
                   !.armedDelay = IF arms THEN delay ELSE @]
        /\ UNCHANGED <<page, aiInterviewer, detectorVars>>

\* recognition.onspeechstart, which only the scaled variant handles
SR_onspeechstart ==
    /\ speechRecognition.variant = "scaled"
    /\ speechRecognition.recognitionRef = "started"
    /\ speechRecognition' = [speechRecognition EXCEPT !.speechStartedRef = TRUE,
                                                      !.sinceLastSpeech = 0]
    /\ UNCHANGED <<page, aiInterviewer, detectorVars>>

\* the browser reports the error and then ends the recognition. The restart
\* the scaled variant arms after 'no-speech' and 'audio-capture' tests the
\* isListening its effect closed over, FALSE when the effect ran: its callback
\* does nothing
SR_onerror(e) ==
    /\ speechRecognition.recognitionRef \in {"starting", "started", "stopping"}
    /\ speechRecognition' =
           [speechRecognition EXCEPT !.recognitionRef = "stopping",
                                     !.isListening = FALSE,
                                     !.silenceTimer = -1,
                                     !.dynamicTimeout = 0,
                                     !.hasMinimumDuration = FALSE]
    /\ UNCHANGED <<page, aiInterviewer, detectorVars>>

\* onend of the instance recognitionRef holds (held), or of a replaced one
SR_onend(held) ==
    /\ IF held
       THEN speechRecognition.recognitionRef \in {"started", "stopping"}
       ELSE speechRecognition.leaked > 0
    /\ speechRecognition' =
           [speechRecognition EXCEPT
               !.recognitionRef = IF held THEN "idle" ELSE @,
               !.leaked = IF held THEN @ ELSE @ - 1,
               !.isListening = FALSE,
               !.silenceTimer = -1,
               !.dynamicTimeout = 0,
               !.hasMinimumDuration = FALSE]
    /\ UNCHANGED <<page, aiInterviewer, detectorVars>>

\* the test of the callback of the silence timer
EndOfTurn(sr) ==
    IF sr.variant = "scaled"
    THEN /\ sr.speechStartedRef
         /\ Trim(sr.finalTranscriptRef) # Empty
         /\ sr.sinceLastSpeech >= sr.dynamicTimeout
         /\ sr.hasMinimumDuration
    ELSE Trim(sr.finalTranscriptRef) # Empty

\* the callback of the silence timer
SR_silenceTimerFires ==
    LET sr == speechRecognition
        text == Trim(sr.finalTranscriptRef)
    IN  /\ sr.silenceTimer = 0
        /\ IF EndOfTurn(sr)
           THEN /\ speechRecognition' =
                       [SR_stopped(sr) EXCEPT
                           !.speechEnds = IF @ < 2 THEN @ + 1 ELSE @,
                           !.lastSpeechEndText = text]
                /\ handleSpeechEnd(text)
           ELSE /\ speechRecognition' = [sr EXCEPT !.silenceTimer = -1,
                                                   !.dynamicTimeout = 0,
                                                   !.hasMinimumDuration = FALSE]
                /\ UNCHANGED <<page, aiInterviewer>>
        /\ UNCHANGED detectorVars

\* the timers of the page and of the hook that are pending
PendingDelays ==
    {left \in {speechRecognition.silenceTimer, speechRecognition.retryTimer,
               page.askTimer} : left >= 0}

\* time passes, up to the next expiry and at most ClockStep; the callback of
\* an expired timer runs before the clock moves on
SR_Tick ==
    LET step == CHOOSE d \in PendingDelays \cup {ClockStep} :
                    \A other \in PendingDelays \cup {ClockStep} : d <= other
        Left(left) == IF left > 0 THEN left - step ELSE left
        sr == speechRecognition
    IN  /\ 0 \notin PendingDelays
        /\ speechRecognition' =
               [sr EXCEPT
                   !.silenceTimer = Left(@),
                   !.retryTimer = Left(@),
                   !.sinceLastSpeech =
                       IF @ + step < LongAgo(sr.silenceTimeout)
                       THEN @ + step ELSE LongAgo(sr.silenceTimeout)]
        /\ page' = [page EXCEPT !.askTimer = Left(@)]
        /\ UNCHANGED <<aiInterviewer, detectorVars>>

(***************************************************************************)
(* The handlers of the page.                                               *)
(***************************************************************************)
\* the start button, shown until the interview has started
startInterview ==
    /\ ~page.isInterviewStarted
    /\ IF ~speechRecognition.isSupported
       THEN UNCHANGED <<page, aiInterviewer>>
       ELSE /\ aiInterviewer' = AIInterviewer(TRUE)
            /\ page' = [page EXCEPT !.isInterviewStarted = TRUE,
                                    !.interviewState = "asking",
                                    !.startInterview = "speak",
                                    !.questionsAsked = 0,
                                    !.listenings = 0]
    /\ UNCHANGED <<speechRecognition, detectorVars>>

\* the calls of the page that await speak
Speaking == {call \in {"startInterview", "askQuestion", "handleSpeechEnd"} :
                page[call] = "speak"}

\* the promise of speak settles: the utterance has ended (resolved), or the
\* synthesis has reported an error
speakSettles(resolved, changed) ==
    /\ Speaking # {}
    /\ IF ~resolved
       THEN \* the catch block of the call
            /\ page' = [page EXCEPT !.startInterview = "idle",
                                    !.askQuestion = "idle",
                                    !.handleSpeechEnd = "idle",
                                    !.interviewState = "error"]
            /\ UNCHANGED <<speechRecognition, aiInterviewer>>
       ELSE IF page.startInterview = "speak"
       THEN LET called == generateFirstQuestion(aiInterviewer)
            IN  IF called.awaiting = "none" THEN firstQuestionReady(called)
                ELSE /\ aiInterviewer' = called
                     /\ page' = [page EXCEPT
                                    !.startInterview = "generateFirstQuestion"]
                     /\ UNCHANGED speechRecognition
       ELSE IF page.askQuestion = "speak"
       THEN /\ page' = [page EXCEPT !.askQuestion = "idle",
                                    !.interviewState = "listening",
                                    !.listenings = @ + 1]
            /\ speechRecognition' = SR_started(SR_reset(speechRecognition))
            /\ UNCHANGED aiInterviewer
       ELSE LET called == generateNextQuestion(aiInterviewer, "transcript",
                                               "currentQuestion")
            IN  IF called.awaiting = "none" THEN nextQuestionReady(called, changed)
                ELSE /\ aiInterviewer' = called
                     /\ page' = [page EXCEPT
                                    !.handleSpeechEnd = "generateNextQuestion"]
                     /\ UNCHANGED speechRecognition
    /\ UNCHANGED detectorVars

\* the remote call settles and the method that awaits it returns, to the page
\* if the page has called it
chatCompletionSettles(outcome, random, changed) ==
    LET ai == chatCompletion(aiInterviewer, outcome, random)
    IN  /\ aiInterviewer.awaiting # "none"
        /\ IF page.startInterview = "generateFirstQuestion"
           THEN firstQuestionReady(ai)
           ELSE IF page.handleSpeechEnd = "generateAppreciation"
           THEN appreciationReady(ai)
           ELSE IF page.handleSpeechEnd = "generateNextQuestion"
           THEN nextQuestionReady(ai, changed)
           ELSE /\ aiInterviewer' = ai
                /\ UNCHANGED <<page, speechRecognition>>
        /\ UNCHANGED detectorVars

\* an askQuestion that starts to listen while the question is still spoken
askTimerFiresAndListens ==
    /\ page.askTimer = 0
    /\ page' = [page EXCEPT !.askTimer = -1,
                            !.interviewState = "listening",
                            !.askQuestion = "speak",
                            !.questionsAsked = @ + 1]
    /\ speechRecognition' = SR_started(SR_reset(speechRecognition))
    /\ UNCHANGED <<aiInterviewer, detectorVars>>
\* setTimeout(() => askQuestion(question), 1500): askQuestion up to its await
askTimerFires ==
    /\ page.askTimer = 0
    /\ page' = [page EXCEPT !.askTimer = -1,
                            !.interviewState = "asking",
                            !.askQuestion = "speak",
                            !.questionsAsked = @ + 1]
    /\ UNCHANGED <<speechRecognition, aiInterviewer, detectorVars>>

\* a retry that leaves the interview marked as started
retryStaysStarted(started) == started
\* setIsInterviewStarted(false)
retryStarted(started) == FALSE

\* the retry button, shown in the state 'error'; the effect of the hook runs
\* again if currentQuestion was not empty
retryInterview ==
    /\ page.interviewState = "error"
    /\ page' = [page EXCEPT !.interviewState = "waiting",
                            !.isInterviewStarted = retryStarted(@),
                            !.currentQuestion = "",
                            !.questionCount = 0]
    /\ aiInterviewer' = IF aiInterviewer.ref # "null"
                        THEN resetInterviewer(aiInterviewer) ELSE aiInterviewer
    /\ IF page.currentQuestion # ""
       THEN /\ effectRuns(speechRecognition).leaked <= MaxLeaked
            /\ speechRecognition' = effectRuns(speechRecognition)
       ELSE UNCHANGED speechRecognition
    /\ UNCHANGED detectorVars

(***************************************************************************)
(* A caller of the AIInterviewer other than the page: it calls one method  *)
(* at a time, up to MaxAnswers answers.                                    *)
(***************************************************************************)
callGenerateFirstQuestion ==
    /\ aiInterviewer.awaiting = "none"
    /\ aiInterviewer' = generateFirstQuestion(aiInterviewer)
    /\ UNCHANGED <<page, speechRecognition, detectorVars>>

callGenerateNextQuestion(previousAnswer, currentQuestion) ==
    /\ aiInterviewer.awaiting = "none"
    /\ aiInterviewer.currentQuestionNumber < MaxAnswers
    /\ Len(aiInterviewer.conversationHistory) < MaxAnswers
    /\ aiInterviewer' = generateNextQuestion(aiInterviewer, previousAnswer,
                                             currentQuestion)
    /\ UNCHANGED <<page, speechRecognition, detectorVars>>

callGenerateAppreciation(random) ==
    /\ aiInterviewer.awaiting = "none"
    /\ aiInterviewer' = generateAppreciation(aiInterviewer, random)
    /\ UNCHANGED <<page, speechRecognition, detectorVars>>

callReset ==
    /\ aiInterviewer.awaiting = "none"
    /\ aiInterviewer' = resetInterviewer(aiInterviewer)
    /\ UNCHANGED <<page, speechRecognition, detectorVars>>

(***************************************************************************)
(* The whole program: the caller, the MicVAD instances, the recognition    *)
(* instances, the timers and the effect, in any order.                     *)
(***************************************************************************)
Next ==
    \/ \E closedOverListening \in {FALSE, vadIsListening} :
         StartListening(closedOverListening)
    \/ StopListening
    \/ resetTranscript
    \/ VADNewResolve
    \/ VADNewReject
    \/ \E held \in BOOLEAN : onSpeechStart(held)
    \/ \E held \in BOOLEAN : onSpeechEnd(held)
    \/ \E held \in BOOLEAN : onVADMisfire(held)
    \/ \E held \in BOOLEAN, p \in Probabilities : onFrameProcessed(held, p)
    \/ \E held \in BOOLEAN : SpeechEndTimerFires(held)
    \/ \E held \in BOOLEAN, rec \in Recognitions : onstart(held, rec)
    \/ \E held \in BOOLEAN, rec \in Recognitions, event \in ResultEvents :
         onresult(held, rec, event)
    \/ \E held \in BOOLEAN, rec \in Recognitions, e \in RecErrors : onerror(held, rec, e)
    \/ \E held \in BOOLEAN, rec \in Recognitions : onend(held, rec)
    \/ RestartTimerFires
    \/ EffectRuns
    \/ Tick

Spec == Init /\ [][Next]_vars

(***************************************************************************)
(* The program with a recognition service that reports no error.           *)
(***************************************************************************)
NextDetector ==
    \/ \E closedOverListening \in {FALSE, vadIsListening} :
         StartListening(closedOverListening)
    \/ StopListening
    \/ resetTranscript
    \/ VADNewResolve
    \/ VADNewReject
    \/ \E held \in BOOLEAN : onSpeechStart(held)
    \/ \E held \in BOOLEAN : onSpeechEnd(held)
    \/ \E held \in BOOLEAN : onVADMisfire(held)
    \/ \E held \in BOOLEAN, p \in Probabilities : onFrameProcessed(held, p)
    \/ \E held \in BOOLEAN : SpeechEndTimerFires(held)
    \/ \E held \in BOOLEAN, rec \in Recognitions : onstart(held, rec)
    \/ \E held \in BOOLEAN, rec \in Recognitions, event \in ResultEvents :
         onresult(held, rec, event)
    \/ \E held \in BOOLEAN, rec \in Recognitions : onend(held, rec)
    \/ EffectRuns
    \/ Tick

SpecDetector == Init /\ [][NextDetector]_vars

(***************************************************************************)
(* The program with a caller that only starts sessions, and a recognition  *)
(* service that delivers final results and reports errors.                 *)
(***************************************************************************)
NextErrors ==
    \/ \E closedOverListening \in {FALSE, vadIsListening} :
         StartListening(closedOverListening)
    \/ VADNewResolve
    \/ \E held \in BOOLEAN : onSpeechStart(held)
    \/ \E held \in BOOLEAN : onSpeechEnd(held)
    \/ \E held \in BOOLEAN, p \in Probabilities : onFrameProcessed(held, p)
    \/ \E held \in BOOLEAN : SpeechEndTimerFires(held)
    \/ \E held \in BOOLEAN, rec \in Recognitions : onstart(held, rec)
    \/ \E held \in BOOLEAN, rec \in Recognitions, event \in FinalResultEvents :
         onresult(held, rec, event)
    \/ \E held \in BOOLEAN, rec \in Recognitions, e \in RecErrors : onerror(held, rec, e)
    \/ \E held \in BOOLEAN, rec \in Recognitions : onend(held, rec)
    \/ RestartTimerFires
    \/ EffectRuns
    \/ Tick

SpecErrors == Init /\ [][NextErrors]_vars

(***************************************************************************)
(* The interview: the page with its hook (the fixed window, 2500 ms) and   *)
(* its AIInterviewer, a candidate who clicks the buttons, and the speech   *)
(* synthesis, the recognition and the remote model settling in any order.  *)
(***************************************************************************)
InitInterview ==
    /\ InitDetector
    /\ isSupported
    /\ speechRecognition = useSpeechRecognition("fixed", 2500)
    /\ page = Home
    /\ aiInterviewer = NoInterviewer

NextInterview ==
    \/ startInterview
    \/ \E resolved \in BOOLEAN, changed \in BOOLEAN : speakSettles(resolved, changed)
    \/ \E outcome \in RemoteOutcomes, random \in Randoms, changed \in BOOLEAN :
         chatCompletionSettles(outcome, random, changed)
    \/ askTimerFires
    \/ retryInterview
    \/ SR_onstart
    \/ \E event \in SpeechResultEvents : SR_onresult(event, MaxSpoken)
    \/ \E e \in RecErrors : SR_onerror(e)
    \/ \E held \in BOOLEAN : SR_onend(held)
    \/ SR_silenceTimerFires
    \/ SR_Tick

SpecInterview == InitInterview /\ [][NextInterview]_vars

(***************************************************************************)
(* The AIInterviewer alone, with or without a client.                      *)
(***************************************************************************)
InitInterviewer ==
    /\ InitDetector
    /\ isSupported
    /\ speechRecognition = useSpeechRecognition("fixed", 2500)
    /\ page = Home
    /\ \E apiKey \in BOOLEAN : aiInterviewer = AIInterviewer(apiKey)

NextInterviewer ==
    \/ callGenerateFirstQuestion
    \/ \E previousAnswer \in PreviousAnswers, currentQuestion \in CurrentQuestions :
         callGenerateNextQuestion(previousAnswer, currentQuestion)
    \/ \E random \in Randoms : callGenerateAppreciation(random)
    \/ callReset
    \/ \E outcome \in RemoteOutcomes, random \in Randoms, changed \in BOOLEAN :
         chatCompletionSettles(outcome, random, changed)

SpecInterviewer == InitInterviewer /\ [][NextInterviewer]_vars

(***************************************************************************)
(* The AIInterviewer with a caller that keeps the order of an interview:   *)
(* generateFirstQuestion on a fresh or reset instance, then                *)
(* generateNextQuestion and generateAppreciation, each call awaited.       *)
(***************************************************************************)
freshOrReset(ai) ==
    ai.currentQuestionNumber = 0 /\ ai.conversationHistory = <<>>

firstCall ==
    /\ freshOrReset(aiInterviewer)
    /\ callGenerateFirstQuestion

nextCall(previousAnswer, currentQuestion) ==
    /\ aiInterviewer.currentQuestionNumber >= 1
    /\ callGenerateNextQuestion(previousAnswer, currentQuestion)

appreciationCall(random) ==
    /\ aiInterviewer.currentQuestionNumber >= 1
    /\ callGenerateAppreciation(random)

NextInterviewSequence ==
    \/ firstCall
    \/ \E previousAnswer \in PreviousAnswers, currentQuestion \in CurrentQuestions :
         nextCall(previousAnswer, currentQuestion)
    \/ \E random \in Randoms : appreciationCall(random)
    \/ callReset
    \/ \E outcome \in RemoteOutcomes, random \in Randoms, changed \in BOOLEAN :
         chatCompletionSettles(outcome, random, changed)

SpecInterviewSequence == InitInterviewer /\ [][NextInterviewSequence]_vars

(***************************************************************************)
(* The detector with a caller that only starts sessions and a recognition  *)
(* that delivers final results, with up to MaxOrphans unreferenced timers. *)
(***************************************************************************)
NextTimers ==
    \/ \E closedOverListening \in {FALSE, vadIsListening} :
         StartListening(closedOverListening)
    \/ VADNewResolve
    \/ \E held \in BOOLEAN : onSpeechStart(held)
    \/ \E held \in BOOLEAN : onSpeechEndWithin(held, MaxOrphans)
    \/ \E held \in BOOLEAN : SpeechEndTimerFires(held)
    \/ \E held \in BOOLEAN, rec \in Recognitions : onstart(held, rec)
    \/ \E held \in BOOLEAN, rec \in Recognitions, event \in FinalResultEvents :
         onresult(held, rec, event)
    \/ Tick

SpecTimers == Init /\ [][NextTimers]_vars

(***************************************************************************)
(* The duration-only detector with a fixed window, called with the default *)
(* silenceTimeout, and a caller that starts, stops and resets.             *)
(***************************************************************************)
InitFixedWindow ==
    /\ InitDetector
    /\ isSupported
    /\ speechRecognition = useSpeechRecognition("fixed", 3000)
    /\ page = Home
    /\ aiInterviewer = NoInterviewer

NextFixedWindow ==
    \/ SR_startListening
    \/ SR_stopListening
    \/ SR_resetTranscript
    \/ SR_onstart
    \/ \E event \in SpeechResultEvents : SR_onresult(event, MaxSpoken)
    \/ \E e \in RecErrors : SR_onerror(e)
    \/ SR_onend(TRUE)
    \/ SR_silenceTimerFires
    \/ SR_Tick

SpecFixedWindow == InitFixedWindow /\ [][NextFixedWindow]_vars

(***************************************************************************)
(* The length-scaled detector, called as the page calls it.                *)
(***************************************************************************)
InitLengthScaled ==
    /\ InitDetector
    /\ isSupported
    /\ speechRecognition = useSpeechRecognition("scaled", 2500)
    /\ page = Home
    /\ aiInterviewer = NoInterviewer

NextLengthScaled ==
    \/ SR_startListening
    \/ SR_retryTimerFires
    \/ SR_stopListening
    \/ SR_resetTranscript
    \/ SR_onstart
    \/ \E event \in SpeechResultEvents : SR_onresult(event, MaxSpoken)
    \/ SR_onspeechstart
    \/ \E e \in RecErrors : SR_onerror(e)
    \/ SR_onend(TRUE)
    \/ SR_silenceTimerFires
    \/ SR_Tick

SpecLengthScaled == InitLengthScaled /\ [][NextLengthScaled]_vars

(***************************************************************************)
(* The duration-only detector in either variant, with its default          *)
(* silenceTimeout, and a caller that starts, stops and resets.             *)
(***************************************************************************)
InitSilenceTimer ==
    /\ InitDetector
    /\ isSupported
    /\ speechRecognition \in {useSpeechRecognition("fixed", 3000),
                              useSpeechRecognition("scaled", 2500)}
    /\ page = Home
    /\ aiInterviewer = NoInterviewer

NextSilenceTimer ==
    \/ SR_startListening
    \/ SR_retryTimerFires
    \/ SR_stopListening
    \/ SR_resetTranscript
    \/ SR_onstart
    \/ \E event \in SpeechResultEvents : SR_onresult(event, MaxSpoken)
    \/ SR_onspeechstart
    \/ \E e \in RecErrors : SR_onerror(e)
    \/ SR_onend(TRUE)
    \/ SR_silenceTimerFires
    \/ SR_Tick

SpecSilenceTimer == InitSilenceTimer /\ [][NextSilenceTimer]_vars

(***************************************************************************)
(* The length-scaled detector called with any of SilenceTimeouts, and a    *)
(* recognition service that delivers one utterance after the other.        *)
(***************************************************************************)
InitDynamicTimeout ==
    /\ InitDetector
    /\ isSupported
    /\ \E silenceTimeout \in SilenceTimeouts :
           speechRecognition = useSpeechRecognition("scaled", silenceTimeout)
    /\ page = Home
    /\ aiInterviewer = NoInterviewer

NextDynamicTimeout ==
    \/ SR_startListening
    \/ SR_retryTimerFires
    \/ SR_onstart
    \/ \E event \in UtteranceEvents : SR_onresult(event, MaxDictated)
    \/ SR_onend(TRUE)
    \/ SR_Tick

SpecDynamicTimeout == InitDynamicTimeout /\ [][NextDynamicTimeout]_vars

(***************************************************************************)
(* The claims about the VAD-fused detector.                                *)
(***************************************************************************)

\* C1: in one session onSpeechEnd is called at most once, and never in a session
\* in which the recognition reported a fatal error.
OneTerminalEvent ==
    /\ turnCompletes <= 1
    /\ turnCompletes >= 1 => error \notin FatalErrors

\* C2: at most one end-of-speech timer is pending at any time: no timer goes on
\* running after speechEndTimerRef has been given another one.
AtMostOneSpeechEndTimer ==
    Cardinality(orphanTimers) + (IF speechEndTimer >= 0 THEN 1 ELSE 0) <= 1

\* C3: a frame whose probability is above vadThreshold leaves no end-of-speech
\* timer pending, so that none fires without a new speech-end.
ResumptionCancelsTimer ==
    [][\A held \in BOOLEAN, p \in Probabilities :
          onFrameProcessed(held, p) /\ p > vadThreshold
            => speechEndTimer' = -1 /\ orphanTimers' = {}]_vars

\* C4: the timer armed by a valid speech-end runs until it fires and calls
\* onSpeechEnd, unless a frame above vadThreshold, a speech-start, or a call of
\* stopListening or startListening takes it away first.
TimerRunsToCompletion ==
    [][speechEndTimer >= 0 /\ speechEndTimer' = -1
         => \/ \E held \in BOOLEAN, p \in Probabilities :
                 onFrameProcessed(held, p) /\ p > vadThreshold
            \/ \E held \in BOOLEAN : onSpeechStart(held)
            \/ StopListening
            \/ \E closedOverListening \in BOOLEAN : StartListening(closedOverListening)
            \/ Emits]_vars

\* C5: a speech-end that comes less than minSpeechDuration after the speech-start
\* arms no timer and changes nothing of the detector: text, speech-captured flag,
\* timers, emissions.
MinimumDurationGate ==
    [][\A held \in BOOLEAN :
          onSpeechEnd(held) /\ sinceSpeechStart < minSpeechDuration
            => UNCHANGED <<enhancedVars, speechEndTimer, orphanTimers,
                           turnCompletes, lastEmitted>>]_vars

\* C5, witness: the last speech-end came less than minSpeechDuration after its
\* speech-start, with final text and the speech-captured flag set, and no timer
\* is pending.
ShortSpeechEnded ==
    /\ lastSpeechEnd = "short"
    /\ sinceSpeechStart < minSpeechDuration
    /\ hasCapturedSpeechRef
    /\ Trim(finalTranscriptRef) # Empty
    /\ speechEndTimer = -1
    /\ orphanTimers = {}

\* C6: a speech-end while the final transcript is empty or only white space arms
\* no timer, whatever the interim text and the duration.
MinimumContentGate ==
    [][\A held \in BOOLEAN :
          onSpeechEnd(held) /\ Trim(finalTranscriptRef) = Empty
            => UNCHANGED <<speechEndTimer, speechEndTimerRef, orphanTimers>>]_vars

\* C6, witness: the last speech-end met the duration requirement with speech
\* captured, the final transcript is white space, interim text is present, and no
\* timer is pending.
SpeechEndedWithoutContent ==
    /\ lastSpeechEnd = "empty"
    /\ finalTranscriptRef = <<" ">>
    /\ interimTranscriptRef # Empty
    /\ speechEndTimer = -1
    /\ orphanTimers = {}

\* C7: whenever onSpeechEnd is called, hasCapturedSpeechRef is true (the final
\* text is non-empty by the test of the timer callback).
EmissionNeedsCapturedSpeech ==
    [][Emits => hasCapturedSpeechRef]_vars

\* C8: once the caller has called stopListening, onSpeechEnd is not called until
\* the next startListening.
StopSuppressesEmission ==
    [][stopped => ~Emits]_vars

\* C9: once the caller has called stopListening, no MicVAD instance is running
\* and no SpeechRecognition instance is starting or started.
NothingRunsAfterStop ==
    stopped =>
        /\ vadRef = "null"
        /\ leakedVADs = {}
        /\ recognitionRef \notin {"starting", "started"}
        /\ \A rec \in leakedRecs : rec.st \notin {"starting", "started"}

\* C10: when the final text arrives after a speech-end that met the duration
\* requirement, and no speech has followed, the end-of-speech timer is running,
\* so that the turn completes as it does when the text arrives first.
LateTextCompletesTurn ==
    lastSpeechEnd = "empty" /\ hasContent => speechEndTimer >= 0 \/ orphanTimers # {}

\* C11: a call of startListening while the VAD hook is listening leaves the open
\* session as it is: the final text, the speech-captured flag and the pending
\* end-of-speech timer are unchanged.
StartLeavesOpenSessionUntouched ==
    [][vadIsListening
         /\ (\E closedOverListening \in BOOLEAN : StartListening(closedOverListening))
         => UNCHANGED <<finalTranscriptRef, hasCapturedSpeechRef, speechEndTimer>>]_vars

\* the session was closed, by the caller's stopListening or by a completed turn,
\* and startListening was not called since
NoSessionOpen == stopped \/ turnCompletes > 0

\* an event of a MicVAD instance or a result of a SpeechRecognition instance is delivered
EventDelivered ==
    \/ \E held \in BOOLEAN : onSpeechStart(held) \/ onSpeechEnd(held)
    \/ \E held \in BOOLEAN, p \in Probabilities : onFrameProcessed(held, p)
    \/ \E held \in BOOLEAN, rec \in Recognitions, event \in ResultEvents :
         onresult(held, rec, event)

\* C12: an event delivered while no session is open changes nothing of the
\* detector: not the final or interim text, the speech-captured flag, the time of
\* the speech start or the end-of-speech timers; and nothing is emitted.
EventsWithoutSessionAreNoOps ==
    [][NoSessionOpen /\ EventDelivered
         => UNCHANGED <<finalTranscriptRef, interimTranscriptRef, hasCapturedSpeechRef,
                        sinceSpeechStart, speechEndTimer, speechEndTimerRef,
                        orphanTimers, turnCompletes, lastEmitted>>]_vars

\* a state stopListening has nothing to do in: no MicVAD in vadRef, no recognition
\* to stop, no end-of-speech timer in speechEndTimerRef, nothing listening
NothingToStop ==
    /\ vadRef = "null"
    /\ ~vadIsListening
    /\ RecStop(recognitionRef) = recognitionRef
    /\ speechEndTimer = -1
    /\ speechEndTimerRef = "null"
    /\ ~isListening

\* C13: stopListening is idempotent and safe without a session: it leaves a state
\* with nothing to stop, and called in a state with nothing to stop (after a
\* stopListening, or when nothing was started) it changes nothing, emits nothing
\* and sets no error.
StopListeningIsIdempotent ==
    [][/\ StopListening => NothingToStop'
       /\ StopListening /\ NothingToStop
            => UNCHANGED <<enhancedVars, vadVars, browserVars, turnCompletes,
                           lastEmitted>>]_vars

\* C13 witness: a session whose recognition had started was stopped, and
\* stopListening can be called again
StoppedStartedSession ==
    /\ stopped
    /\ NothingToStop
    /\ recognitionRef = "stopping"
    /\ finalTranscriptRef # Empty

\* C14: the teardown of a session, by the caller's stopListening or by the timer
\* callback that completes the turn, leaves no end-of-speech timer pending and
\* both the final and the interim text empty.
TeardownClearsEverything ==
    [][StopListening \/ Emits
         => /\ speechEndTimer' = -1
            /\ orphanTimers' = {}
            /\ finalTranscriptRef' = Empty
            /\ interimTranscriptRef' = Empty]_vars

\* C15: a fatal recognition error tears the session down at once: after the
\* onerror step no MicVAD runs in vadRef, the VAD hook is not listening and no
\* end-of-speech timer is pending.
FatalErrorTearsDown ==
    [][(\E held \in BOOLEAN, rec \in Recognitions, e \in FatalErrors :
          onerror(held, rec, e))
         => /\ vadRef' = "null"
            /\ ~vadIsListening'
            /\ speechEndTimer' = -1
            /\ orphanTimers' = {}]_vars

\* C16: a transient recognition error ('no-speech') leads to an automatic
\* restart: the onerror step arms a restart timer whose callback will call
\* recognition.start() (restartTimers holds the timers whose callback passes its
\* isListening test), and it leaves the final text as it is.
TransientErrorRestarts ==
    [][(\E held \in BOOLEAN, rec \in Recognitions : onerror(held, rec, "no-speech"))
         => /\ restartDelay \in restartTimers'
            /\ UNCHANGED finalTranscriptRef]_vars

\* the detector as it is before any session: nothing listening, no MicVAD built
\* or being built, no recognition instance, no timer, nothing emitted, no text
DetectorIdle ==
    /\ ~isListening
    /\ ~vadIsListening
    /\ vadRef = "null"
    /\ pendingNew = 0
    /\ leakedVADs = {}
    /\ recognitionRef = "null"
    /\ leakedRecs = {}
    /\ speechEndTimer = -1
    /\ speechEndTimerRef = "null"
    /\ orphanTimers = {}
    /\ restartTimers = {}
    /\ turnCompletes = 0
    /\ finalTranscriptRef = Empty
    /\ interimTranscriptRef = Empty
    /\ ~hasCapturedSpeechRef

SpeechStartRecordedOnce ==
    [][\A held \in BOOLEAN :
         onSpeechStart(held) /\ hasCapturedSpeechRef /\ ~NoSessionOpen
           => UNCHANGED sinceSpeechStart]_vars

\* what the caller receives with a completed turn: the arguments of the call
\* onSpeechEnd(finalText), named by the callback's signature (transcript: string)
turnComplete == [text |-> lastEmitted]

\* C19: the event of a completed turn carries the text, the highest confidence
\* of the session's final segments and the duration of the speech.
TurnCompleteCarriesConfidenceAndDuration ==
    turnCompletes > 0 => DOMAIN turnComplete = {"text", "confidence", "durationMs"}

\* C20: the text of a completed turn is the trimmed concatenation, in the order
\* of arrival, of all the final segments of the session.  Step by step: a result
\* appends its final segments, and only those, to the final text; between the
\* startListening that opens the session and the emission nothing else changes
\* the final text; and the emission delivers the trimmed final text.
EmittedTextIsAllFinalSegments ==
    [][/\ \A held \in BOOLEAN, rec \in Recognitions, event \in ResultEvents :
            onresult(held, rec, event)
              => finalTranscriptRef' = finalTranscriptRef \o FinalOf(event)
       /\ finalTranscriptRef' # finalTranscriptRef
            => \/ \E held \in BOOLEAN, rec \in Recognitions, event \in ResultEvents :
                    onresult(held, rec, event)
               \/ \E closedOverListening \in BOOLEAN : StartListening(closedOverListening)
       /\ Emits => lastEmitted' = Trim(finalTranscriptRef)]_vars

\* C21: while a session is open (the VAD hook is listening and the session was
\* not closed) the final text never gets shorter, whatever the step: a result, a
\* VAD event, resetTranscript or a repeated startListening.
FinalTextNeverShrinks ==
    [][vadIsListening /\ ~NoSessionOpen
         => Len(finalTranscriptRef') >= Len(finalTranscriptRef)]_vars

\* C22: the confidence of a session is a high-water mark over its final
\* segments: a result never lowers it, and a result without a final segment
\* leaves it as it is.
ConfidenceIsHighWaterMark ==
    [][\A held \in BOOLEAN, rec \in Recognitions, event \in ResultEvents :
         onresult(held, rec, event)
           => /\ confidence' >= confidence
              /\ FinalOf(event) = Empty => confidence' = confidence]_vars

\* C23: in a session in which no speech has started, the first result with
\* non-blank text, interim or final, marks the session as speech-started.
TranscriptMarksSpeechStarted ==
    [][\A held \in BOOLEAN, rec \in Recognitions, event \in ResultEvents :
         /\ onresult(held, rec, event)
         /\ ~NoSessionOpen
         /\ Trim(FinalOf(event) \o InterimOf(event)) # Empty
         => hasCapturedSpeechRef']_vars

(***************************************************************************)
(* The claims about the duration-only detector, the page and the           *)
(* interviewer.                                                            *)
(***************************************************************************)

\* the callback of the silence timer calls onSpeechEnd with the trimmed final text
SR_Emits ==
    /\ SR_silenceTimerFires
    /\ speechRecognition'.speechEnds = speechRecognition.speechEnds + 1
    /\ speechRecognition'.lastSpeechEndText = Trim(speechRecognition.finalTranscriptRef)

\* C24: in the detector with the fixed window, the silence timer that a final
\* segment armed runs for silenceTimeout and then calls onSpeechEnd once with
\* the trimmed final text, unless a further result arrives or the session is
\* stopped: a pending timer goes away only by its callback, which calls
\* onSpeechEnd if there is final text, by a result or by stopListening.
SilenceWindowEndsTurn ==
    [][speechRecognition.silenceTimer >= 0 /\ speechRecognition'.silenceTimer = -1
         => \/ SR_Emits
            \/ SR_silenceTimerFires /\ Trim(speechRecognition.finalTranscriptRef) = Empty
            \/ \E event \in SpeechResultEvents : SR_onresult(event, MaxSpoken)
            \/ SR_stopListening]_vars


\* C25: in the length-scaled detector, when the silence timer expires after
\* speech has started, with final text and with no speech or result for the
\* whole debounce window, the end of turn is detected: onSpeechEnd is invoked
\* with the trimmed final text.
LengthScaledWindowEndsTurn ==
    [][/\ SR_silenceTimerFires
       /\ speechRecognition.speechStartedRef
       /\ Trim(speechRecognition.finalTranscriptRef) # Empty
       /\ speechRecognition.sinceLastSpeech >= speechRecognition.dynamicTimeout
       => SR_Emits]_vars


\* C26: in the length-scaled detector the delay a final result arms the
\* silence timer with is max(1000, max(0.7 * silenceTimeout, silenceTimeout -
\* 10 * length of the final text)): it is never below 70% of silenceTimeout,
\* never below 1000 ms, never above a silenceTimeout of 1000 ms or more, and
\* never longer than the delay armed earlier in the session for a shorter text.
DebounceWindowShortens ==
    [][\A event \in UtteranceEvents :
         SR_onresult(event, MaxDictated) /\ speechRecognition'.silenceTimer >= 0
         => LET timeout == speechRecognition.silenceTimeout
                length == Len(speechRecognition'.finalTranscriptRef)
                delay == speechRecognition'.silenceTimer
                seventy == (7 * timeout) \div 10
                scaled == timeout - 10 * length
                window == IF seventy >= scaled THEN seventy ELSE scaled
            IN  /\ delay = IF window >= 1000 THEN window ELSE 1000
                /\ 10 * delay >= 7 * timeout
                /\ delay >= 1000
                /\ timeout >= 1000 => delay <= timeout
                /\ speechRecognition.armedDelay >= 0
                       => delay <= speechRecognition.armedDelay]_vars

\* a long answer has brought the window of 2500 ms down to its floor of 70%
WindowAtSeventyPercent ==
    /\ speechRecognition.variant = "scaled"
    /\ speechRecognition.silenceTimeout = 2500
    /\ Len(speechRecognition.finalTranscriptRef) = 77
    /\ speechRecognition.silenceTimer = 1750


InterviewerFallsBack ==
    [][LET ai == aiInterviewer
           predefined == {FirstFallbackQuestion, WrapUpQuestion}
                         \cup {fallbackQuestions[i] : i \in DOMAIN fallbackQuestions}
                         \cup {appreciations[i] : i \in DOMAIN appreciations}
           fulfilled == /\ aiInterviewer'.awaiting = "none"
                        /\ aiInterviewer'.returned # Empty
       IN  /\ callGenerateFirstQuestion /\ ~ai.openai
                  => /\ fulfilled
                     /\ aiInterviewer'.returned = FirstFallbackQuestion
                     /\ aiInterviewer'.currentQuestionNumber = 1
           /\ (\E previousAnswer \in PreviousAnswers,
                  currentQuestion \in CurrentQuestions :
                    callGenerateNextQuestion(previousAnswer, currentQuestion))
                  => /\ aiInterviewer'.currentQuestionNumber
                            = ai.currentQuestionNumber + 1
                     /\ ~ai.openai
                            => fulfilled /\ aiInterviewer'.returned \in predefined
           /\ \A random \in Randoms :
                  callGenerateAppreciation(random)
                  => /\ aiInterviewer'.currentQuestionNumber = ai.currentQuestionNumber
                     /\ ~ai.openai
                            => fulfilled /\ aiInterviewer'.returned \in predefined
           /\ \A outcome \in RemoteOutcomes, random \in Randoms, changed \in BOOLEAN :
                  chatCompletionSettles(outcome, random, changed)
                  => /\ fulfilled
                     /\ outcome.throws \/ Trim(outcome.content) = Empty
                            => aiInterviewer'.returned \in predefined
                     /\ aiInterviewer'.currentQuestionNumber =
                            IF ai.awaiting = "generateFirstQuestion" THEN 1
                            ELSE ai.currentQuestionNumber]_vars

\* with a client, the third question is the predefined one: the remote call
\* has failed
FallbackQuestionAfterFailure ==
    /\ aiInterviewer.openai
    /\ aiInterviewer.awaiting = "none"
    /\ aiInterviewer.currentQuestionNumber = 3
    /\ aiInterviewer.returned = fallbackQuestions[2]


\* C29: a misfire does not block the turn. When the detector of an open
\* session reports a misfire (after a speech-start, which has cancelled the
\* timer) and the final text is not blank, a timer that will emit turnComplete
\* is pending after the misfire.
MisfireLeavesTurnCompletable ==
    [][/\ onVADMisfire(TRUE)
       /\ vadIsListening /\ ~NoSessionOpen
       /\ hasCapturedSpeechRef
       /\ Trim(finalTranscriptRef) # Empty
       => speechEndTimer' >= 0 \/ orphanTimers' # {}]_vars


\* C30: a speech-start delivered in an open session leaves no end-of-speech
\* timer pending, sets the speech-started flag, resets the speech start time
\* to now, and leaves the final and the interim text unchanged.
SpeechStartCancelsTimers ==
    [][\A held \in BOOLEAN :
         onSpeechStart(held) /\ vadIsListening /\ ~NoSessionOpen
         => /\ speechEndTimer' = -1
            /\ orphanTimers' = {}
            /\ hasCapturedSpeechRef'
            /\ sinceSpeechStart' = 0
            /\ finalTranscriptRef' = finalTranscriptRef
            /\ interimTranscriptRef' = interimTranscriptRef]_vars


\* C31: at most one MicVAD instance exists at a time: the instance vadRef
\* holds or the one being constructed, and no instance that no ref holds is
\* left running.
AtMostOneVADInstance ==
    /\ leakedVADs = {}
    /\ (IF vadRef = "null" THEN 0 ELSE 1) + pendingNew <= 1


\* C32: the completion path stops listening before it invokes onSpeechEnd.
\* When the VAD-fused detector emits turnComplete, the stop has been requested
\* (the VAD hook is not listening, vadRef is null, the recognition is not
\* started) and no end-of-speech timer is pending; when the duration-only
\* detector invokes onSpeechEnd, its recognition has been stopped and no
\* silence timer is pending.
StopPrecedesSpeechEnd ==
    [][/\ \A held \in BOOLEAN :
            SpeechEndTimerFires(held) /\ Trim(finalTranscriptRef) # Empty
            => /\ speechEndTimer' = -1
               /\ orphanTimers' = {}
               /\ vadRef' = "null"
               /\ ~vadIsListening'
               /\ recognitionRef' \notin {"starting", "started"}
       /\ SR_silenceTimerFires
              /\ speechRecognition'.speechEnds # speechRecognition.speechEnds
            => /\ speechRecognition'.silenceTimer = -1
               /\ speechRecognition'.recognitionRef \notin {"starting", "started"}]_vars


\* C33: the page listens only after the question has been spoken. The state
\* 'listening' is entered, a listening session is counted and the recognition
\* is started only in the step in which speak(question) of askQuestion
\* resolves; if it rejects the page is in 'error', no session is started, and
\* none is started while the page stays in 'error'.
ListensOnlyAfterQuestionSpoken ==
    [][LET questionSpoken == /\ page.askQuestion = "speak"
                             /\ page'.askQuestion = "idle"
                             /\ page'.interviewState = "listening"
           starts == /\ speechRecognition'.recognitionRef = "starting"
                     /\ speechRecognition.recognitionRef # "starting"
       IN  /\ page'.interviewState = "listening" /\ page.interviewState # "listening"
                  => questionSpoken
           /\ page'.listenings = page.listenings + 1 => questionSpoken
           /\ starts => questionSpoken
           /\ questionSpoken => page'.listenings = page.listenings + 1
           /\ page.askQuestion = "speak" /\ page'.askQuestion = "idle"
                  /\ ~questionSpoken
                  => /\ page'.interviewState = "error"
                     /\ page'.listenings = page.listenings
                     /\ speechRecognition' = speechRecognition
           /\ page.interviewState = "error" => ~starts]_vars

\* the first question has been spoken and the recognition is being started
ListeningToFirstAnswer ==
    /\ page.interviewState = "listening"
    /\ page.questionsAsked = 1
    /\ page.listenings = 1
    /\ speechRecognition.recognitionRef = "starting"


\* C34: in the duration-only detector a recognition result cancels the
\* pending silence timer and arms a new one only if it has a final segment and
\* the content condition holds (fixed window: the final text is not blank;
\* scaled window: speech has started and the final text has more than 10
\* characters): after a result with interim text only no timer is pending, and
\* a timer pending after a result is the one that result armed, with its full
\* delay.
ResultRearmsSilenceTimer ==
    [][\A event \in SpeechResultEvents :
         SR_onresult(event, MaxSpoken)
         => LET sr == speechRecognition'
                finalText == Trim(sr.finalTranscriptRef)
            IN  /\ FinalOf(event) = Empty => sr.silenceTimer = -1
                /\ sr.silenceTimer >= 0
                       => /\ FinalOf(event) # Empty
                          /\ sr.silenceTimer = sr.armedDelay
                          /\ IF sr.variant = "fixed" THEN finalText # Empty
                             ELSE sr.speechStartedRef /\ Len(finalText) > 10
                /\ sr.variant = "fixed" /\ sr.silenceTimer >= 0
                       => sr.silenceTimer = sr.silenceTimeout]_vars

\* an interim result has arrived while the timer of a final segment was pending
InterimResultCancelledTimer ==
    /\ speechRecognition.recognitionRef = "started"
    /\ Len(Trim(speechRecognition.finalTranscriptRef)) > 10
    /\ speechRecognition.interimTranscriptRef # Empty
    /\ speechRecognition.silenceTimer = -1


\* C35: in the VAD-fused detector the displayed transcript is at every moment
\* the final accumulator followed by the most recent interim fragment: a
\* transcript event, resetTranscript and startListening all leave it so, and
\* the interim fragment kept after a result is the fragment of that result
\* alone, whatever the fragment before it was.
TranscriptIsFinalThenInterim ==
    [][/\ transcript' = finalTranscriptRef' \o interimTranscriptRef'
       /\ \A rec \in Recognitions, event \in ResultEvents :
            (\E held \in BOOLEAN : onresult(held, rec, event))
            => interimTranscriptRef' = InterimOf(event)
       /\ resetTranscript => transcript' = Empty
       /\ (\E closedOverListening \in BOOLEAN : StartListening(closedOverListening))
            /\ ~NotSupported => transcript' = Empty]_vars

\* an interim fragment is displayed after the final text
InterimShownAfterFinal ==
    /\ finalTranscriptRef # Empty
    /\ interimTranscriptRef # Empty
    /\ transcript = finalTranscriptRef \o interimTranscriptRef
    /\ transcript # finalTranscriptRef


NextQuestionRecordsOneTurn ==
    [][/\ \A previousAnswer \in PreviousAnswers, currentQuestion \in CurrentQuestions :
            callGenerateNextQuestion(previousAnswer, currentQuestion)
            => /\ aiInterviewer'.conversationHistory =
                      Append(aiInterviewer.conversationHistory,
                             [question |-> currentQuestion, answer |-> previousAnswer])
               /\ aiInterviewer'.currentQuestionNumber =
                      aiInterviewer.currentQuestionNumber + 1
               /\ aiInterviewer'.currentQuestionNumber > 7
                      => /\ aiInterviewer'.awaiting = "none"
                         /\ aiInterviewer'.returned = WrapUpQuestion
       /\ \A outcome \in RemoteOutcomes, random \in Randoms, changed \in BOOLEAN :
            chatCompletionSettles(outcome, random, changed)
               /\ aiInterviewer.awaiting = "generateNextQuestion"
            => /\ aiInterviewer'.conversationHistory = aiInterviewer.conversationHistory
               /\ aiInterviewer'.currentQuestionNumber =
                      aiInterviewer.currentQuestionNumber]_vars

\* an interviewer with a client has returned the wrap-up sentence for the
\* eighth question, with the seven answers in its history
WrapUpWithoutRemoteCall ==
    /\ aiInterviewer.openai
    /\ aiInterviewer.awaiting = "none"
    /\ aiInterviewer.currentQuestionNumber = 8
    /\ aiInterviewer.returned = WrapUpQuestion
    /\ Len(aiInterviewer.conversationHistory) = 7


\* C38: in a sequence of calls that starts with generateFirstQuestion on a
\* fresh or reset AIInterviewer and goes on with generateNextQuestion and
\* generateAppreciation, the history has one turn less than the question
\* number once the first question has been generated; reset empties the
\* history and sets the number to 0, and leaves the client and the interview
\* type as they were.
HistoryIsOneBehindNumber ==
    [][/\ aiInterviewer'.currentQuestionNumber >= 1
            => Len(aiInterviewer'.conversationHistory)
                   = aiInterviewer'.currentQuestionNumber - 1
       /\ callReset
            => /\ aiInterviewer'.conversationHistory = <<>>
               /\ aiInterviewer'.currentQuestionNumber = 0
               /\ aiInterviewer'.openai = aiInterviewer.openai
               /\ aiInterviewer'.interviewType = aiInterviewer.interviewType]_vars

\* the fourth question has been generated after three recorded answers
FourthQuestionThreeTurns ==
    /\ aiInterviewer.currentQuestionNumber = 4
    /\ Len(aiInterviewer.conversationHistory) = 3
    /\ aiInterviewer.awaiting = "none"
    /\ aiInterviewer.returned \notin {WrapUpQuestion, FirstFallbackQuestion}


====
